---------------------------- MODULE Spec2Model ----------------------------
(***************************************************************************)
(* Model of lib/grammar/anc/masc/anc_masc_ptb_extract.py: the script that  *)
(* reads bracketed parse trees, puts each tree in Chomsky normal form and  *)
(* collects the rendered productions in the two sets `terminal` and        *)
(* `binary`.                                                               *)
(*                                                                         *)
(* A tree node is a record [leaf, label, kids]; a leaf (a token of the     *)
(* sentence) is a node with leaf = TRUE and no kids.  The calls the script *)
(* makes on a tree or a production (label, chomsky_normal_form,            *)
(* productions, is_lexical, unicode_repr) are operators computed the way   *)
(* the called routine computes them.                                       *)
(***************************************************************************)
EXTENDS Integers, Sequences, FiniteSets

VARIABLES corpus, fi, si, pc, sent, prods, i, terminal, binary, out

vars == <<corpus, fi, si, pc, sent, prods, i, terminal, binary, out>>

(***************************************************************************)
(* Bounds of the model.                                                    *)
(***************************************************************************)
\* the number of sentences of the corpus, over all its files
MaxSents == 2
\* the largest number of productions of a sentence handled before an
\* exception is raised inside the loop over the productions
MaxFault == 1

(***************************************************************************)
(* Trees.                                                                  *)
(***************************************************************************)
Leaf(w) == [leaf |-> TRUE, label |-> w, kids |-> <<>>]

Node(l, ks) == [leaf |-> FALSE, label |-> l, kids |-> ks]

\* a part-of-speech node over one token
Pre(l, w) == Node(l, <<Leaf(w)>>)

\* (S (NP (DT the) (NN cat)) (VP (VBZ sat)))
Example1 ==
  Node("S", << Node("NP", <<Pre("DT", "the"), Pre("NN", "cat")>>),
               Node("VP", <<Pre("VBZ", "sat")>>) >>)

\* (S (NP (DT the) (JJ big) (NN cat)) (VP (VBZ sat)))
Example2 ==
  Node("S", << Node("NP", <<Pre("DT", "the"), Pre("JJ", "big"), Pre("NN", "cat")>>),
               Node("VP", <<Pre("VBZ", "sat")>>) >>)

\* (NP): a node without children
ZeroChild == Node("NP", <<>>)

\* (S (DT the) cat): a node over a tree and a token
Mixed == Node("S", <<Pre("DT", "the"), Leaf("cat")>>)

\* (CODE (SYM the)): markup of the source corpus, not a sentence
CodeTree == Node("CODE", <<Pre("SYM", "the")>>)

\* (S (DT the) big (NN cat)): three children, one of them a token
TernaryLeaf == Node("S", <<Pre("DT", "the"), Leaf("big"), Pre("NN", "cat")>>)

\* (S cat): a root over one token
LeafOnly == Node("S", <<Leaf("cat")>>)

\* (S ('cat' sat)): a label spelled like a quoted token
QuotedLabel == Node("S", <<Pre("'cat'", "sat")>>)

\* the trees the reader yields in this model
Catalog ==
  {Example1, Example2, ZeroChild, Mixed, CodeTree, TernaryLeaf, LeafOnly,
   QuotedLabel}

(***************************************************************************)
(* Tree.label()                                                            *)
(***************************************************************************)
label(t) == t.label

\* the test of line 11 with the sentinel misspelled
IsCode_misspelled(t) == label(t) = "Code"

\* the test of line 11, negated

IsCode(t) == label(t) = "CODE"

(***************************************************************************)
(* Tree.chomsky_normal_form(): every node with more than two children is   *)
(* factored to the right, the new nodes labelled                           *)
(* <label>|<<l_i>-...-<l_n>> after the children they cover.  Nodes with    *)
(* zero, one or two children are left as they are.  The labels of the      *)
(* children are read with child.label(), which a token (a string) does not *)
(* have: a node with more than two children one of which is a token raises.*)
(***************************************************************************)
RECURSIVE Join(_, _)
Join(ss, sep) ==
  IF ss = <<>> THEN ""
  ELSE IF Len(ss) = 1 THEN ss[1]
  ELSE ss[1] \o sep \o Join(Tail(ss), sep)

RECURSIVE CnfRaises(_)
CnfRaises(t) ==
  /\ ~t.leaf
  /\ \/ Len(t.kids) > 2 /\ \E k \in DOMAIN t.kids : t.kids[k].leaf
     \/ \E k \in DOMAIN t.kids : CnfRaises(t.kids[k])

\* the children of the node that covers ks[j..], original label l
RECURSIVE RightFactor(_, _, _)
RightFactor(l, ks, j) ==
  IF Len(ks) - j + 1 <= 2 THEN SubSeq(ks, j, Len(ks))
  ELSE LET rest == [k \in 1..(Len(ks) - j) |-> label(ks[j + k])]
           newHead == l \o "|<" \o Join(rest, "-") \o ">"
       IN  <<ks[j], Node(newHead, RightFactor(l, ks, j + 1))>>

\* a normalization that leaves the tree as it is
cnf_unchanged(t) == t

RECURSIVE chomsky_normal_form(_)
chomsky_normal_form(t) ==
  IF t.leaf THEN t
  ELSE LET ks == [k \in DOMAIN t.kids |-> chomsky_normal_form(t.kids[k])]
       IN  Node(t.label, RightFactor(t.label, ks, 1))

(***************************************************************************)
(* Tree.productions(): one production per node, the node's own first and   *)
(* then those of its children from left to right.  The right-hand side     *)
(* holds a nonterminal for a child that is a tree and the token itself for *)
(* a child that is a token.                                                *)
(***************************************************************************)
Sym(isNt, s) == [nt |-> isNt, sym |-> s]

child_names(t) ==
  [k \in DOMAIN t.kids |-> Sym(~t.kids[k].leaf, t.kids[k].label)]

Production(t) == [lhs |-> label(t), rhs |-> child_names(t)]

RECURSIVE productions(_)
RECURSIVE KidProductions(_, _)
KidProductions(ks, k) ==
  IF k > Len(ks) THEN <<>>
  ELSE (IF ks[k].leaf THEN <<>> ELSE productions(ks[k]))
       \o KidProductions(ks, k + 1)

productions(t) == <<Production(t)>> \o KidProductions(t.kids, 1)

(***************************************************************************)
(* Production.is_lexical(): the right-hand side holds at least one token.  *)
(***************************************************************************)
is_nonlexical(p) == \A k \in DOMAIN p.rhs : p.rhs[k].nt

is_lexical(p) == ~is_nonlexical(p)

(***************************************************************************)
(* Production.unicode_repr(): "<lhs> -> <rhs_1> ... <rhs_k>", a            *)
(* nonterminal rendered as its symbol and a token as its repr, in quotes.  *)
(* (The tokens of the catalog hold no quote and no backslash.)             *)
(***************************************************************************)
repr(w) == "'" \o w \o "'"

SymRepr(e) == IF e.nt THEN e.sym ELSE repr(e.sym)

unicode_repr(p) ==
  p.lhs \o " -> " \o Join([k \in DOMAIN p.rhs |-> SymRepr(p.rhs[k])], " ")

(***************************************************************************)
(* The corpus: for each file, the sentences the reader yields for it.  A   *)
(* sentence is a tree together with the number of its productions that are *)
(* handled before the handling raises an exception (0: none is raised).    *)
(* Lines 15-18 lie inside the try block of line 12: whatever they raise    *)
(* (a MemoryError while the string is built or the set grows, an error of  *)
(* the production's methods) is caught by line 19.  The fault is part of   *)
(* the sentence, so that a sentence fails the same way wherever it stands  *)
(* in the corpus.                                                          *)
(***************************************************************************)
FileIds == <<"a/b/1.mrg", "a/b/2.mrg">>

NumFiles == Len(FileIds)

\* handling production k of sentence s raises
RaisesAt(s, k) == s.fault > 0 /\ k = s.fault + 1

\* the exception of sentence s is raised: its tree reaches the loop and has
\* more productions than s.fault
FaultFires(s) ==
  /\ s.fault > 0
  /\ label(s.tree) # "CODE"
  /\ ~CnfRaises(s.tree)
  /\ Len(productions(chomsky_normal_form(s.tree))) > s.fault

\* (a fault beyond the last production of the tree never fires: such a
\* sentence is the one with fault 0)
Sentences ==
  {s \in [tree : Catalog, fault : 0..MaxFault] :
     s.fault = 0 \/ FaultFires(s)}

SeqsUpTo(S, n) == UNION {[1..k -> S] : k \in 0..n}

RECURSIVE TotalLen(_, _)
TotalLen(c, f) == IF f = 0 THEN 0 ELSE Len(c[f]) + TotalLen(c, f - 1)

Corpora ==
  {c \in [1..NumFiles -> SeqsUpTo(Sentences, MaxSents)] :
     TotalLen(c, NumFiles) <= MaxSents}

\* the sentences of files 1..f, in the order the two loops visit them
RECURSIVE Flat(_, _)
Flat(c, f) == IF f = 0 THEN <<>> ELSE Flat(c, f - 1) \o c[f]

(***************************************************************************)
(* set.add                                                                 *)
(***************************************************************************)
\* an assignment in place of the insertion
add_overwrites(S, x) == {x}

\* an insertion that drops a string it finds present
add_toggles(S, x) == IF x \in S THEN S \ {x} ELSE S \cup {x}

add(S, x) == S \cup {x}

(***************************************************************************)
(* except Exception: pass -- the run goes on with the next sentence.       *)
(***************************************************************************)
\* the exception not caught: the run aborts
except_propagates == "aborted"

except_pass == "for"

(***************************************************************************)
(* The state after lines 1-8.                                              *)
(***************************************************************************)
NoTree == Leaf("")

Init ==
  /\ corpus \in Corpora
  /\ fi = 1
  /\ si = 1
  /\ pc = "for"
  /\ sent = NoTree
  /\ prods = <<>>
  /\ i = 1
  /\ terminal = {}
  /\ binary = {}
  /\ out = <<>>

\* the reader has a sentence to yield for the current file
HasSent == fi <= NumFiles /\ si <= Len(corpus[fi])

\* the sentence being handled (the one the reader yielded last)
Cur == corpus[fi][si - 1]

(***************************************************************************)
(* The steps of the run.                                                   *)
(***************************************************************************)
\* line 9: the sentences of the file are exhausted, on to the next file
NextFile ==
  /\ pc = "for"
  /\ fi <= NumFiles
  /\ si > Len(corpus[fi])
  /\ fi' = fi + 1
  /\ si' = 1
  /\ UNCHANGED <<corpus, pc, sent, prods, i, terminal, binary, out>>

\* lines 10-11: the reader yields a sentence labelled CODE
Skip ==
  /\ pc = "for"
  /\ HasSent
  /\ IsCode(corpus[fi][si].tree)
  /\ sent' = corpus[fi][si].tree
  /\ si' = si + 1
  /\ UNCHANGED <<corpus, fi, pc, prods, i, terminal, binary, out>>

\* lines 10-12: the reader yields a sentence with another label
Enter ==
  /\ pc = "for"
  /\ HasSent
  /\ ~IsCode(corpus[fi][si].tree)
  /\ sent' = corpus[fi][si].tree
  /\ si' = si + 1
  /\ pc' = "try"
  /\ UNCHANGED <<corpus, fi, prods, i, terminal, binary, out>>

\* line 13, and lines 19-20 when it raises
Normalize ==
  /\ pc = "try"
  /\ IF CnfRaises(sent)
       THEN pc' = except_pass /\ UNCHANGED sent
       ELSE pc' = "prods" /\ sent' = chomsky_normal_form(sent)
  /\ UNCHANGED <<corpus, fi, si, prods, i, terminal, binary, out>>

\* line 14: sent.productions(), the list the loop runs over
Productions ==
  /\ pc = "prods"
  /\ prods' = productions(sent)
  /\ i' = 1
  /\ pc' = "loop"
  /\ UNCHANGED <<corpus, fi, si, sent, terminal, binary, out>>

\* lines 15-18: one production handled
Insert ==
  /\ pc = "loop"
  /\ i <= Len(prods)
  /\ ~RaisesAt(Cur, i)
  /\ \/ /\ is_lexical(prods[i])
        /\ terminal' = add(terminal, unicode_repr(prods[i]))
        /\ UNCHANGED binary
     \/ /\ ~is_lexical(prods[i])
        /\ binary' = add(binary, unicode_repr(prods[i]))
        /\ UNCHANGED terminal
  /\ i' = i + 1
  /\ UNCHANGED <<corpus, fi, si, pc, sent, prods, out>>

\* lines 15-20: handling a production raises, the exception is caught
Raise ==
  /\ pc = "loop"
  /\ i <= Len(prods)
  /\ RaisesAt(Cur, i)
  /\ pc' = except_pass
  /\ UNCHANGED <<corpus, fi, si, sent, prods, i, terminal, binary, out>>

\* line 14: the productions are exhausted
EndLoop ==
  /\ pc = "loop"
  /\ i > Len(prods)
  /\ pc' = "for"
  /\ UNCHANGED <<corpus, fi, si, sent, prods, i, terminal, binary, out>>

\* "\n".join(S), as the set of the lines printed
Lines(S) == IF S = {} THEN {""} ELSE S

\* what print statement k (lines 22-26) writes
PrintLine(k) ==
  CASE k = 1 -> {"TERMINALS"}
    [] k = 2 -> Lines(terminal)
    [] k = 3 -> {""}
    [] k = 4 -> {"BINARIES"}
    [] k = 5 -> Lines(binary)

\* lines 22-26, one print statement at a time
PrintStmt ==
  /\ pc = "for"
  /\ fi > NumFiles
  /\ out' = Append(out, PrintLine(Len(out) + 1))
  /\ pc' = IF Len(out) + 1 = 5 THEN "done" ELSE "for"
  /\ UNCHANGED <<corpus, fi, si, sent, prods, i, terminal, binary>>

Next ==
  \/ NextFile
  \/ Skip
  \/ Enter
  \/ Normalize
  \/ Productions
  \/ Insert
  \/ Raise
  \/ EndLoop
  \/ PrintStmt

Spec == Init /\ [][Next]_vars

\* the script is one thread that runs until it ends
FairSpec == Spec /\ WF_vars(Next)

(***************************************************************************)
(* The run as a function of the sentences: lines 9-20 applied to a         *)
(* sequence of sentences, from the sets acc = <<terminal, binary>>.        *)
(***************************************************************************)
\* lines 14-20 from production k on
RECURSIVE HandleFrom(_, _, _, _)
HandleFrom(s, ps, k, acc) ==
  IF k > Len(ps) \/ RaisesAt(s, k) THEN acc
  ELSE HandleFrom(s, ps, k + 1,
         IF is_lexical(ps[k])
           THEN <<add(acc[1], unicode_repr(ps[k])), acc[2]>>
           ELSE <<acc[1], add(acc[2], unicode_repr(ps[k]))>>)

\* lines 11-20 for one sentence
Handle(s, acc) ==
  IF IsCode(s.tree) \/ CnfRaises(s.tree) THEN acc
  ELSE HandleFrom(s, productions(chomsky_normal_form(s.tree)), 1, acc)

\* lines 9-20 for the sentences ss[k..]
RECURSIVE RunFrom(_, _, _)
RunFrom(ss, k, acc) ==
  IF k > Len(ss) THEN acc ELSE RunFrom(ss, k + 1, Handle(ss[k], acc))

\* lines 7-20
Run(ss) == RunFrom(ss, 1, <<{}, {}>>)

(***************************************************************************)
(* Vocabulary of the properties.                                           *)
(***************************************************************************)
Range(f) == {f[k] : k \in DOMAIN f}

\* all the sentences of the corpus, in the order of the run
All == Flat(corpus, NumFiles)

\* the sentences the reader has yielded so far
Yielded ==
  IF fi > NumFiles THEN All
  ELSE Flat(corpus, fi - 1) \o SubSeq(corpus[fi], 1, si - 1)

\* the productions of the normalized tree of t
NormalProductions(t) == Range(productions(chomsky_normal_form(t)))

\* normalization or extraction of s fails
Failed(s) == CnfRaises(s.tree) \/ FaultFires(s)

\* s is a sentence that is neither skipped nor fails
Good(s) == s.tree.label # "CODE" /\ ~Failed(s)

LexicalStrings(s) ==
  {unicode_repr(p) : p \in {q \in NormalProductions(s.tree) : is_lexical(q)}}

NonLexicalStrings(s) ==
  {unicode_repr(p) : p \in {q \in NormalProductions(s.tree) : ~is_lexical(q)}}

GoodOf(ss) == {s \in Range(ss) : Good(s)}

\* an Insert step: the production prods[i] is handled
InsertStep == pc = "loop" /\ pc' = "loop" /\ i' = i + 1

(***************************************************************************)
(* C1.  When the run has finished, terminal is exactly the set of the      *)
(* rendered lexical productions, and binary exactly the set of the         *)
(* rendered non-lexical productions, of the normalized trees of the        *)
(* sentences that are not labelled CODE and did not fail.                  *)
(***************************************************************************)
C1_ExactSets ==
  pc = "done" =>
    /\ terminal = UNION {LexicalStrings(s) : s \in GoodOf(All)}
    /\ binary = UNION {NonLexicalStrings(s) : s \in GoodOf(All)}

(***************************************************************************)
(* C2.  Failure atomicity: between two sentences, every string of either   *)
(* set was contributed by a sentence that did not fail; a sentence that    *)
(* raised, at whatever point, has left nothing of its own.                 *)
(***************************************************************************)
C2_FailureAtomic ==
  pc = "for" =>
    /\ \A x \in terminal : \E s \in GoodOf(Yielded) : x \in LexicalStrings(s)
    /\ \A x \in binary : \E s \in GoodOf(Yielded) : x \in NonLexicalStrings(s)

(***************************************************************************)
(* C3.  Shape: a production whose string enters binary has one or two      *)
(* right-hand-side symbols, all nonterminals; a production whose string    *)
(* enters terminal has exactly one right-hand-side symbol, a token.        *)
(***************************************************************************)
BinaryShape(p) ==
  Len(p.rhs) \in {1, 2} /\ \A k \in DOMAIN p.rhs : p.rhs[k].nt

TerminalShape(p) == Len(p.rhs) = 1 /\ ~p.rhs[1].nt

C3_Shape ==
  [][InsertStep =>
       LET p == prods[i]
           x == unicode_repr(p)
       IN  /\ (x \in binary' /\ x \notin binary) => BinaryShape(p)
           /\ (x \in terminal' /\ x \notin terminal) => TerminalShape(p)]_vars

(***************************************************************************)
(* C4.  Partition: a production goes to exactly one of the two sets, so    *)
(* that no string is in both.                                              *)
(***************************************************************************)
C4_Disjoint == terminal \cap binary = {}

(***************************************************************************)
(* C5.  Skip: when the reader yields a sentence labelled CODE the step     *)
(* leaves both sets as they are and the run stays at the head of the loop, *)
(* on to the next sentence; no sentence labelled CODE is ever inside the   *)
(* try block.                                                              *)
(***************************************************************************)
C5_SkipCode ==
  [][/\ (pc = "for" /\ HasSent /\ corpus[fi][si].tree.label = "CODE") =>
          /\ terminal' = terminal
          /\ binary' = binary
          /\ pc' = "for"
          /\ si' = si + 1
          /\ fi' = fi
     /\ pc' \in {"try", "prods", "loop"} => sent'.label # "CODE"]_vars

C5_Witness ==
  /\ pc = "for"
  /\ fi <= NumFiles
  /\ si > 1
  /\ Cur.tree.label = "CODE"
  /\ sent = Cur.tree
  /\ terminal # {}

(***************************************************************************)
(* C6.  Whatever sentences fail, the run reaches its end: all files are    *)
(* exhausted, every sentence that does not fail has contributed, and the   *)
(* output is the TERMINALS section followed by the BINARIES section.       *)
(***************************************************************************)
C6_ReachesOutput ==
  <>(/\ pc = "done"
     /\ fi > NumFiles
     /\ \A s \in GoodOf(All) :
          LexicalStrings(s) \subseteq terminal /\ NonLexicalStrings(s) \subseteq binary
     /\ out = <<{"TERMINALS"}, Lines(terminal), {""}, {"BINARIES"}, Lines(binary)>>)

C6_Witness ==
  /\ pc = "done"
  /\ Len(All) >= 2
  /\ Failed(All[1])
  /\ Good(All[2])
  /\ LexicalStrings(All[2]) # {}
  /\ LexicalStrings(All[2]) \subseteq terminal
  /\ Len(out) = 5

(***************************************************************************)
(* C7.  Dedup: the final sets are those of the run over the corpus with    *)
(* every repeated sentence dropped.                                        *)
(***************************************************************************)
RECURSIVE Dedup(_)
Dedup(ss) ==
  IF ss = <<>> THEN <<>>
  ELSE LET front == Dedup(SubSeq(ss, 1, Len(ss) - 1))
           last == ss[Len(ss)]
       IN  IF last \in Range(front) THEN front ELSE Append(front, last)

C7_Dedup == pc = "done" => <<terminal, binary>> = Run(Dedup(All))

C7_Witness ==
  /\ pc = "done"
  /\ Len(All) >= 2
  /\ All[1] = All[2]
  /\ Good(All[1])
  /\ terminal # {}
  /\ binary # {}

(***************************************************************************)
(* C8.  Order independence: the final sets are those of the run over any   *)
(* permutation of the sentences of the corpus.                             *)
(***************************************************************************)
Perms(n) == {f \in [1..n -> 1..n] : \A a, b \in 1..n : f[a] = f[b] => a = b}

C8_OrderIndependent ==
  pc = "done" =>
    \A f \in Perms(Len(All)) :
      Run([k \in 1..Len(All) |-> All[f[k]]]) = <<terminal, binary>>

C8_Witness ==
  /\ pc = "done"
  /\ Len(All) >= 2
  /\ Failed(All[1])
  /\ Good(All[2])
  /\ All[2].tree # All[1].tree
  /\ terminal # {}
  /\ binary # {}

(***************************************************************************)
(* C9.  Monotone growth: no step of the run takes a string out of terminal *)
(* or out of binary.                                                       *)
(***************************************************************************)
C9_Monotone == [][terminal \subseteq terminal' /\ binary \subseteq binary']_vars

C9_Witness ==
  /\ pc = "for"
  /\ fi <= NumFiles
  /\ si > 2
  /\ FaultFires(Cur)
  /\ Good(corpus[fi][si - 2])
  /\ LexicalStrings(corpus[fi][si - 2]) \subseteq terminal
  /\ NonLexicalStrings(corpus[fi][si - 2]) \subseteq binary
  /\ binary # {}

(***************************************************************************)
(* C10.  Binarization: the productions of a normalized sentence hold, for  *)
(* every node with three children, the two binary productions              *)
(* L -> l1 L|<l2-l3> and L|<l2-l3> -> l2 l3 in place of L -> l1 l2 l3, one *)
(* production more per such node, and no production has more than two      *)
(* right-hand-side symbols.                                                *)
(***************************************************************************)
RECURSIVE NodeCount(_)
RECURSIVE NodeSum(_, _)
NodeSum(ks, k) ==
  IF k > Len(ks) THEN 0 ELSE NodeCount(ks[k]) + NodeSum(ks, k + 1)

\* the number of nodes of t that are trees
NodeCount(t) == IF t.leaf THEN 0 ELSE 1 + NodeSum(t.kids, 1)

RECURSIVE SubNodes(_)
SubNodes(t) ==
  IF t.leaf THEN {}
  ELSE {t} \cup UNION {SubNodes(t.kids[k]) : k \in DOMAIN t.kids}

RECURSIVE TernaryCount(_)
RECURSIVE TernarySum(_, _)
TernarySum(ks, k) ==
  IF k > Len(ks) THEN 0 ELSE TernaryCount(ks[k]) + TernarySum(ks, k + 1)

TernaryCount(t) ==
  IF t.leaf THEN 0
  ELSE (IF Len(t.kids) = 3 THEN 1 ELSE 0) + TernarySum(t.kids, 1)

Nt(l) == [nt |-> TRUE, sym |-> l]

C10_Binarized ==
  pc = "loop" =>
    /\ \A k \in DOMAIN prods : Len(prods[k].rhs) <= 2
    /\ Len(prods) = NodeCount(Cur.tree) + TernaryCount(Cur.tree)
    /\ \A n \in {m \in SubNodes(Cur.tree) : Len(m.kids) = 3} :
         LET l1 == n.kids[1].label
             l2 == n.kids[2].label
             l3 == n.kids[3].label
             syn == n.label \o "|<" \o l2 \o "-" \o l3 \o ">"
         IN  /\ [lhs |-> n.label, rhs |-> <<Nt(l1), Nt(syn)>>] \in Range(prods)
             /\ [lhs |-> syn, rhs |-> <<Nt(l2), Nt(l3)>>] \in Range(prods)
             /\ [lhs |-> n.label, rhs |-> <<Nt(l1), Nt(l2), Nt(l3)>>] \notin Range(prods)
             /\ syn \notin {m.label : m \in SubNodes(Cur.tree)}

C10_Witness ==
  /\ pc = "loop"
  /\ Cur.tree = Example2
  /\ i > Len(prods)
  /\ "NP -> DT NP|<JJ-NN>" \in binary
  /\ "NP|<JJ-NN> -> JJ NN" \in binary

=============================================================================
